---- MODULE Spec2Model ----
(***************************************************************************)
(* go-docker-deploy: a single-endpoint HTTP service that pulls an image    *)
(* from a private registry and (re)starts a named container.               *)
(*                                                                         *)
(* Two programs are modelled, selected by the variable `variant`:          *)
(*   "main"     src/main.go          (credentials, memory/cpuShares)       *)
(*   "part_000" src/unnamed/part_000 (x-api-key check, no resources)       *)
(*                                                                         *)
(* Go strings are sequences of one-character strings.  A byte count is     *)
(* kept as the pair (num, pow) standing for num * 1024^pow, because the    *)
(* products of the units table exceed the range of TLC integers.           *)
(***************************************************************************)
EXTENDS Integers, Sequences, FiniteSets, TLC

VARIABLES
    variant,      \* which of the two programs is running
    pc,           \* per request: the handler's position
    req,          \* per request: the parsed DockerRequest
    cred,         \* per request: how credential resolution went
    calls,        \* per request: the engine calls issued, in order
    errs,         \* per request: the engine calls that returned an error
    resp,         \* per request: the HTTP response written
    containers,   \* the engine's containers
    crashed,      \* the process died of an unrecovered panic
    faults,       \* engine calls that failed for reasons of the engine's own
    lastCreated,  \* per name: the request whose ContainerCreate succeeded last
    found,        \* per request: the container ContainerInspect reported
    before,       \* per request: the requests already answered when it arrived
    order,        \* the requests in the order they were answered
    val,          \* convertToBytes alone: its argument
    ret           \* convertToBytes alone: its outcome

vars == <<variant, pc, req, cred, calls, errs, resp, containers, crashed,
          faults, lastCreated, found, before, order, val, ret>>

deployVars == <<variant, pc, req, cred, calls, errs, resp, containers,
                crashed, faults, lastCreated, found, before, order>>

\* ------------------------------------------------------------ bounds

NumRequests == 2

MaxFaults == 2

MaxLen == 3

\* ----------------------------------------------------------- strings

Str0 == <<>>

Lower == <<"a","b","c","d","e","f","g","h","i","j","k","l","m",
           "n","o","p","q","r","s","t","u","v","w","x","y","z">>

Upper == <<"A","B","C","D","E","F","G","H","I","J","K","L","M",
           "N","O","P","Q","R","S","T","U","V","W","X","Y","Z">>

ToUpperChar(c) ==
    IF \E i \in 1..26 : Lower[i] = c
    THEN Upper[CHOOSE i \in 1..26 : Lower[i] = c]
    ELSE c

ToUpper(s) == [i \in 1..Len(s) |-> ToUpperChar(s[i])]

HasPrefix(s, prefix) ==
    /\ Len(s) >= Len(prefix)
    /\ SubSeq(s, 1, Len(prefix)) = prefix

privateDockerRegistry == <<"d",".","p","u","n","e","e","t",".","c","c">>

\* ------------------------------------------------------------ errors

\* A Go error: its message, and the text the message was formatted with.
Error(msg, arg) == [msg |-> msg, arg |-> arg]

NoErr == Error("", Str0)

\* ---------------------------------------------------- convertToBytes

units ==
    (<<"K","B">> :> 1) @@ (<<"M","B">> :> 2) @@
    (<<"G","B">> :> 3) @@ (<<"T","B">> :> 4)

Digits == <<"0","1","2","3","4","5","6","7","8","9">>

IsDigit(c) == \E i \in 1..10 : Digits[i] = c

DigitVal(c) == (CHOOSE i \in 1..10 : Digits[i] = c) - 1

RECURSIVE DecVal(_)
DecVal(s) ==
    IF s = Str0 THEN 0
    ELSE 10 * DecVal(SubSeq(s, 1, Len(s) - 1)) + DigitVal(s[Len(s)])

\* strconv.ParseInt(numStr, 10, 64): an optional sign, then one digit or more.
ParseInt(numStr) ==
    LET signed == numStr # Str0 /\ numStr[1] \in {"+", "-"}
        body   == IF signed THEN Tail(numStr) ELSE numStr
    IN  IF body # Str0 /\ \A i \in 1..Len(body) : IsDigit(body[i])
        THEN [ok |-> TRUE,
              num |-> IF signed /\ numStr[1] = "-" THEN 0 - DecVal(body)
                      ELSE DecVal(body)]
        ELSE [ok |-> FALSE, num |-> 0]

Bytes(num, pow) ==
    [kind |-> "bytes", num |-> num, pow |-> pow, err |-> NoErr]

ParseError(err) ==
    [kind |-> "error", num |-> 0, pow |-> 0, err |-> err]

\* A slice expression out of range: a runtime panic.
Panic ==
    [kind |-> "panic", num |-> 0, pow |-> 0,
     err |-> Error("slice bounds out of range", Str0)]

\* s[lo:hi] with Go's zero-based bounds; the caller has checked the range.
Slice(s, lo, hi) == SubSeq(s, lo + 1, hi)

SliceOk(s, lo, hi) == 0 <= lo /\ lo <= hi /\ hi <= Len(s)

\* lines 66-71: the integer prefix, times the unit's multiplier
ParsePrefix(v, unit) ==
    IF ~SliceOk(v, 0, Len(v) - Len(unit)) THEN Panic
    ELSE LET numStr == Slice(v, 0, Len(v) - Len(unit))
             n      == ParseInt(numStr)
         IN  IF ~n.ok THEN ParseError(Error("strconv.ParseInt", numStr))
             ELSE Bytes(n.num, units[unit])

convertToBytes(s) ==
    LET v == ToUpper(s)
    IN  IF ~SliceOk(v, Len(v) - 2, Len(v)) THEN Panic
        ELSE LET unit == Slice(v, Len(v) - 2, Len(v))
             IN  IF unit \in DOMAIN units THEN ParsePrefix(v, unit)
                 ELSE LET unit1 == Slice(v, Len(v) - 1, Len(v))
                      IN  IF unit1 \notin DOMAIN units
                          THEN ParseError(Error("Invalid unit", unit1))
                          ELSE ParsePrefix(Slice(v, 0, Len(v) - 1), unit1)

\* --------------------------------------------------- requests, engine

Requests == 1..NumRequests

Names == {"svc1"}

ImageInputs ==
    { privateDockerRegistry \o <<"/","a">>,
      <<"d","o","c","k","e","r",".","i","o","/","a">>,
      <<"d",".","p","u","n","e","e","t">> }

MemoryInputs ==
    { Str0, <<"1","K","B">>, <<"1","0","K">>, <<"5">> }

CPUSharesInputs == { Str0, <<"2">>, <<"x">> }

\* type DockerRequest, the fields this model follows
DockerRequest ==
    [ContainerName : Names, Image : ImageInputs,
     Memory : MemoryInputs, CPUShares : CPUSharesInputs]

ZeroRequest ==
    [ContainerName |-> "", Image |-> Str0, Memory |-> Str0, CPUShares |-> Str0]

\* BodyParser into the variant's DockerRequest: part_000's has no Memory and
\* no CPUShares field, so the decoder drops them.
BodyParser(body) ==
    IF variant = "part_000"
    THEN [body EXCEPT !.Memory = Str0, !.CPUShares = Str0]
    ELSE body

EngineError(call) == Error("engine error", <<call>>)

\* The container the engine created before the service started, if any.
PreExisting(n) == [id |-> 0, name |-> n, state |-> "running"]

Named(cs, n) == {c \in cs : c.name = n}

\* Whether an engine call may fail for a reason of the engine's own.
FaultChoices == IF faults < MaxFaults THEN BOOLEAN ELSE {FALSE}

\* docker.ImagePull
ImagePull(fault) == IF fault THEN EngineError("pull") ELSE NoErr

\* docker.ContainerInspect(name)
ContainerInspect(cs, n, fault) ==
    IF fault \/ Named(cs, n) = {} THEN EngineError("inspect") ELSE NoErr

\* docker.ContainerStop(name, nil): a container that is not running stays as
\* it is and the call succeeds.
ContainerStop(cs, n, fault) ==
    IF fault \/ Named(cs, n) = {}
    THEN [err |-> EngineError("stop"), cs |-> cs]
    ELSE [err |-> NoErr,
          cs  |-> {IF c.name = n /\ c.state = "running"
                   THEN [c EXCEPT !.state = "exited"] ELSE c : c \in cs}]

\* docker.ContainerRemove(name, ContainerRemoveOptions{}): without Force a
\* running container is not removed.
ContainerRemove(cs, n, fault) ==
    IF \/ fault
       \/ Named(cs, n) = {}
       \/ \E c \in Named(cs, n) : c.state = "running"
    THEN [err |-> EngineError("remove"), cs |-> cs]
    ELSE [err |-> NoErr, cs |-> cs \ Named(cs, n)]

\* docker.ContainerCreate(..., name): the engine refuses a name in use.
ContainerCreate(cs, n, id, fault) ==
    IF fault \/ Named(cs, n) # {}
    THEN [err |-> EngineError("create"), cs |-> cs]
    ELSE [err |-> NoErr,
          cs  |-> cs \cup {[id |-> id, name |-> n, state |-> "created"]}]

\* docker.ContainerStart(c.ID): by the ID that create returned.
ContainerStart(cs, id, fault) ==
    IF fault \/ {c \in cs : c.id = id} = {}
    THEN [err |-> EngineError("start"), cs |-> cs]
    ELSE [err |-> NoErr,
          cs  |-> {IF c.id = id THEN [c EXCEPT !.state = "running"] ELSE c
                   : c \in cs}]

\* --------------------------------------------------------- responses

NoResponse == [status |-> 0, error |-> 0, message |-> NoErr]

\* lines 213-219: the handler's answer to what startContainer returned
Response(err) ==
    IF err = NoErr
    THEN [status |-> 200, error |-> 0,
          message |-> Error("Container Started", Str0)]
    ELSE [status |-> 500, error |-> 1, message |-> err]

\* startContainer returns err and the handler answers.
Return(r, err) ==
    /\ pc' = [pc EXCEPT ![r] = "done"]
    /\ resp' = [resp EXCEPT ![r] = Response(err)]
    /\ order' = Append(order, r)

Goto(r, label) ==
    /\ pc' = [pc EXCEPT ![r] = label]
    /\ UNCHANGED <<resp, order>>

Issue(r, call, err, fault) ==
    /\ calls' = [calls EXCEPT ![r] = Append(@, call)]
    /\ errs' = [errs EXCEPT ![r] = IF err = NoErr THEN @ ELSE @ \cup {call}]
    /\ faults' = IF fault THEN faults + 1 ELSE faults

\* Where startContainer goes after the cleanup block.
AfterCleanup == IF variant = "main" THEN "config" ELSE "create"

\* ------------------------------------------------------------- state

NotFound == 0 - 1

NotCalled == [kind |-> "none", num |-> 0, pow |-> 0, err |-> NoErr]

Init ==
    /\ variant \in {"main", "part_000"}
    /\ pc = [r \in Requests |-> "idle"]
    /\ req = [r \in Requests |-> ZeroRequest]
    /\ cred = [r \in Requests |-> "none"]
    /\ calls = [r \in Requests |-> <<>>]
    /\ errs = [r \in Requests |-> {}]
    /\ resp = [r \in Requests |-> NoResponse]
    /\ containers \in {{}} \cup {{PreExisting(n)} : n \in Names}
    /\ crashed = FALSE
    /\ faults = 0
    /\ lastCreated = [n \in Names |-> 0]
    /\ found = [r \in Requests |-> NotFound]
    /\ before = [r \in Requests |-> {}]
    /\ order = <<>>
    /\ val = Str0
    /\ ret = NotCalled

\* ----------------------------------------------------------- handler

\* app.Post("/"): the x-api-key check (part_000 only: main.go has it commented
\* out), then BodyParser.  Requests take the slots in the order they arrive.
Handler(r) ==
    /\ ~crashed
    /\ pc[r] = "idle"
    /\ \A s \in Requests : s < r => pc[s] # "idle"
    /\ before' = [before EXCEPT ![r] = {s \in Requests : pc[s] = "done"}]
    /\ \E keyOk \in (IF variant = "part_000" THEN BOOLEAN ELSE {TRUE}),
          bodyOk \in BOOLEAN, body \in DockerRequest :
         IF ~keyOk
         THEN /\ Return(r, Error("Unauthorised Access", Str0))
              /\ UNCHANGED req
         ELSE IF ~bodyOk
         THEN /\ Return(r, Error("BodyParser", Str0))
              /\ UNCHANGED req
         ELSE /\ req' = [req EXCEPT ![r] = BodyParser(body)]
              /\ Goto(r, "validate")
    /\ UNCHANGED <<variant, cred, calls, errs, containers, crashed, faults,
                   lastCreated, found, val, ret>>

\* Validate with the arguments of HasPrefix exchanged.
ValidateSwapped(r) ==
    /\ ~crashed
    /\ pc[r] = "validate"
    /\ IF ~HasPrefix(privateDockerRegistry, req[r].Image)
       THEN Return(r, Error("only d.puneet.cc images supported", Str0))
       ELSE Goto(r, IF variant = "main" THEN "creds" ELSE "pull")
    /\ UNCHANGED <<variant, req, cred, calls, errs, containers, crashed,
                   faults, lastCreated, found, before, val, ret>>

\* startContainer, the registry check
Validate(r) ==
    /\ ~crashed
    /\ pc[r] = "validate"
    /\ IF ~HasPrefix(req[r].Image, privateDockerRegistry)
       THEN Return(r, Error("only d.puneet.cc images supported", Str0))
       ELSE Goto(r, IF variant = "main" THEN "creds" ELSE "pull")
    /\ UNCHANGED <<variant, req, cred, calls, errs, containers, crashed,
                   faults, lastCreated, found, before, val, ret>>

\* startContainer, main.go only: cliconfig.Load, whose error is returned, and
\* cfg.GetAuthConfig, whose error is discarded.  json.Marshal of an AuthConfig
\* and the base64 encoding cannot fail.
LoadCredentials(r) ==
    /\ ~crashed
    /\ pc[r] = "creds"
    /\ \E outcome \in {"ok", "load", "lookup"} :
         /\ cred' = [cred EXCEPT ![r] = outcome]
         /\ IF outcome = "load"
            THEN Return(r, Error("config load failed", Str0))
            ELSE Goto(r, "pull")
    /\ UNCHANGED <<variant, req, calls, errs, containers, crashed, faults,
                   lastCreated, found, before, val, ret>>

\* startContainer, ImagePull and the display of its progress stream.  What
\* DisplayJSONMessagesStream returns is discarded, so an error reported inside
\* the stream changes nothing here: only the error of the ImagePull call ends
\* the request.
Pull(r) ==
    /\ ~crashed
    /\ pc[r] = "pull"
    /\ \E fault \in FaultChoices :
         LET err == ImagePull(fault)
         IN  /\ Issue(r, "pull", err, fault)
             /\ IF err # NoErr THEN Return(r, err) ELSE Goto(r, "inspect")
    /\ UNCHANGED <<variant, req, cred, containers, crashed, lastCreated,
                   found, before, val, ret>>

\* Inspect with the test of its error inverted: cleanup when nothing is found.
InspectInverted(r) ==
    /\ ~crashed
    /\ pc[r] = "inspect"
    /\ \E fault \in FaultChoices :
         LET err == ContainerInspect(containers, req[r].ContainerName, fault)
         IN  /\ Issue(r, "inspect", err, fault)
             /\ found' = [found EXCEPT ![r] =
                    IF err = NoErr
                    THEN (CHOOSE c \in Named(containers, req[r].ContainerName)
                              : TRUE).id
                    ELSE NotFound]
             /\ Goto(r, IF err # NoErr THEN "stop" ELSE AfterCleanup)
    /\ UNCHANGED <<variant, req, cred, containers, crashed, lastCreated,
                   before, val, ret>>

Inspect(r) ==
    /\ ~crashed
    /\ pc[r] = "inspect"
    /\ \E fault \in FaultChoices :
         LET err == ContainerInspect(containers, req[r].ContainerName, fault)
         IN  /\ Issue(r, "inspect", err, fault)
             /\ found' = [found EXCEPT ![r] =
                    IF err = NoErr
                    THEN (CHOOSE c \in Named(containers, req[r].ContainerName)
                              : TRUE).id
                    ELSE NotFound]
             /\ Goto(r, IF err = NoErr THEN "stop" ELSE AfterCleanup)
    /\ UNCHANGED <<variant, req, cred, containers, crashed, lastCreated,
                   before, val, ret>>

\* Stop returning the error of ContainerStop instead of logging it.
StopReturnsError(r) ==
    /\ ~crashed
    /\ pc[r] = "stop"
    /\ \E fault \in FaultChoices :
         LET out == ContainerStop(containers, req[r].ContainerName, fault)
         IN  /\ Issue(r, "stop", out.err, fault)
             /\ containers' = out.cs
             /\ IF out.err # NoErr THEN Return(r, out.err)
                ELSE Goto(r, "remove")
    /\ UNCHANGED <<variant, req, cred, crashed, lastCreated, found, before,
                   val, ret>>

Stop(r) ==
    /\ ~crashed
    /\ pc[r] = "stop"
    /\ \E fault \in FaultChoices :
         LET out == ContainerStop(containers, req[r].ContainerName, fault)
         IN  /\ Issue(r, "stop", out.err, fault)
             /\ containers' = out.cs
             /\ Goto(r, "remove")
    /\ UNCHANGED <<variant, req, cred, crashed, lastCreated, found, before,
                   val, ret>>

Remove(r) ==
    /\ ~crashed
    /\ pc[r] = "remove"
    /\ \E fault \in FaultChoices :
         LET out == ContainerRemove(containers, req[r].ContainerName, fault)
         IN  /\ Issue(r, "remove", out.err, fault)
             /\ containers' = out.cs
             /\ Goto(r, AfterCleanup)
    /\ UNCHANGED <<variant, req, cred, crashed, lastCreated, found, before,
                   val, ret>>

\* What lines 121-142 end in: a panic, an error returned, or a hostConfig.
Resources(request) ==
    LET memory == IF request.Memory # Str0
                  THEN convertToBytes(request.Memory) ELSE Bytes(0, 0)
        shares == ParseInt(request.CPUShares)
    IN  IF memory.kind # "bytes" THEN memory
        ELSE IF request.CPUShares # Str0 /\ ~shares.ok
        THEN ParseError(Error("strconv.ParseInt", request.CPUShares))
        ELSE memory

\* startContainer, main.go only: the memory and cpuShares strings.  A panic
\* is not recovered by the handler or the framework: the process dies.
Configure(r) ==
    /\ ~crashed
    /\ pc[r] = "config"
    /\ LET res == Resources(req[r])
       IN  IF res.kind = "panic"
           THEN /\ crashed' = TRUE
                /\ UNCHANGED <<pc, resp, order>>
           ELSE /\ UNCHANGED crashed
                /\ IF res.kind = "error"
                   THEN Return(r, res.err)
                   ELSE Goto(r, "create")
    /\ UNCHANGED <<variant, req, cred, calls, errs, containers, faults,
                   lastCreated, found, before, val, ret>>

\* Create logging the error of ContainerCreate and going on to start.
CreateIgnoresError(r) ==
    /\ ~crashed
    /\ pc[r] = "create"
    /\ \E fault \in FaultChoices :
         LET out == ContainerCreate(containers, req[r].ContainerName, r, fault)
         IN  /\ Issue(r, "create", out.err, fault)
             /\ containers' = out.cs
             /\ lastCreated' =
                    IF out.err = NoErr
                    THEN [lastCreated EXCEPT ![req[r].ContainerName] = r]
                    ELSE lastCreated
             /\ Goto(r, "start")
    /\ UNCHANGED <<variant, req, cred, crashed, found, before, val, ret>>

Create(r) ==
    /\ ~crashed
    /\ pc[r] = "create"
    /\ \E fault \in FaultChoices :
         LET out == ContainerCreate(containers, req[r].ContainerName, r, fault)
         IN  /\ Issue(r, "create", out.err, fault)
             /\ containers' = out.cs
             /\ lastCreated' =
                    IF out.err = NoErr
                    THEN [lastCreated EXCEPT ![req[r].ContainerName] = r]
                    ELSE lastCreated
             /\ IF out.err # NoErr THEN Return(r, out.err)
                ELSE Goto(r, "start")
    /\ UNCHANGED <<variant, req, cred, crashed, found, before, val, ret>>

\* ContainerStart addressed by name, as stop and remove are.
ContainerStartByName(cs, n, fault) ==
    IF fault \/ Named(cs, n) = {}
    THEN [err |-> EngineError("start"), cs |-> cs]
    ELSE [err |-> NoErr,
          cs  |-> {IF c.name = n THEN [c EXCEPT !.state = "running"] ELSE c
                   : c \in cs}]

\* Start passing request.ContainerName instead of c.ID.
StartByName(r) ==
    /\ ~crashed
    /\ pc[r] = "start"
    /\ \E fault \in FaultChoices :
         LET out == ContainerStartByName(containers, req[r].ContainerName,
                                         fault)
         IN  /\ Issue(r, "start", out.err, fault)
             /\ containers' = out.cs
             /\ Return(r, out.err)
    /\ UNCHANGED <<variant, req, cred, crashed, lastCreated, found, before,
                   val, ret>>

Start(r) ==
    /\ ~crashed
    /\ pc[r] = "start"
    /\ \E fault \in FaultChoices :
         LET out == ContainerStart(containers, r, fault)
         IN  /\ Issue(r, "start", out.err, fault)
             /\ containers' = out.cs
             /\ Return(r, out.err)
    /\ UNCHANGED <<variant, req, cred, crashed, lastCreated, found, before,
                   val, ret>>

Next ==
    \E r \in Requests :
        \/ Handler(r)
        \/ Validate(r)
        \/ LoadCredentials(r)
        \/ Pull(r)
        \/ Inspect(r)
        \/ Stop(r)
        \/ Remove(r)
        \/ Configure(r)
        \/ Create(r)
        \/ Start(r)

Spec == Init /\ [][Next]_vars

\* ------------------------------------------- convertToBytes on its own

Alphabet == {"1", "0", "-", "K", "k", "B", "b", "M", "G", "T", "x"}

MemoryStrings == UNION {[1..n -> Alphabet] : n \in 1..MaxLen}

\* convertToBytes is about to be called on some non-empty string.
InitParse ==
    /\ variant = "main"
    /\ pc = [r \in Requests |-> "idle"]
    /\ req = [r \in Requests |-> ZeroRequest]
    /\ cred = [r \in Requests |-> "none"]
    /\ calls = [r \in Requests |-> <<>>]
    /\ errs = [r \in Requests |-> {}]
    /\ resp = [r \in Requests |-> NoResponse]
    /\ containers = {}
    /\ crashed = FALSE
    /\ faults = 0
    /\ lastCreated = [n \in Names |-> 0]
    /\ found = [r \in Requests |-> NotFound]
    /\ before = [r \in Requests |-> {}]
    /\ order = <<>>
    /\ val \in MemoryStrings
    /\ ret = NotCalled

CallConvertToBytes ==
    /\ ret = NotCalled
    /\ ret' = convertToBytes(val)
    /\ UNCHANGED <<val, deployVars>>

NextParse == CallConvertToBytes

SpecParse == InitParse /\ [][NextParse]_vars

\* ------------------------------------------------------------ claims

Range(q) == {q[i] : i \in 1..Len(q)}

Last(q) == q[Len(q)]

IsPrefix(p, q) == Len(p) <= Len(q) /\ SubSeq(q, 1, Len(p)) = p

WithCleanup == <<"pull", "inspect", "stop", "remove", "create", "start">>

WithoutCleanup == <<"pull", "inspect", "create", "start">>

\* The image differs from the registry host somewhere in its first characters.
OutsideRegistry(image) ==
    \E i \in 1..Len(privateDockerRegistry) :
        i > Len(image) \/ image[i] # privateDockerRegistry[i]

\* The memory and cpuShares strings of the request parse (part_000 reads
\* neither).
ResourcesParse(r) ==
    variant = "main" => Resources(req[r]).kind = "bytes"

\* C1: a request whose image does not start with d.puneet.cc is answered with
\* the registry error and no engine call was issued for it, in both variants.
ForeignImageRejectedBeforeEngine ==
    \A r \in Requests :
        (pc[r] # "idle" /\ req[r] # ZeroRequest
            /\ OutsideRegistry(req[r].Image))
        => /\ calls[r] = <<>>
           /\ pc[r] \in {"validate", "done"}
           /\ pc[r] = "done" =>
                resp[r] = Response(Error("only d.puneet.cc images supported",
                                         Str0))

\* A request for d.puneet (shorter than the host) was rejected with no engine
\* call while another request went as far as start.
ForeignImageRejected ==
    \E r \in Requests :
        /\ pc[r] = "done"
        /\ req[r].Image = <<"d",".","p","u","n","e","e","t">>
        /\ resp[r].status = 500
        /\ calls[r] = <<>>
        /\ \E s \in Requests : "start" \in Range(calls[s])

\* C3: a failed stop is followed by the remove call, a failed remove by the
\* create call (the resource strings parsing), and a failed create is returned
\* as the engine's error without a start call.
CleanupFailureDoesNotAbort ==
    \A r \in Requests :
        /\ "stop" \in Range(calls[r]) =>
              \/ pc[r] = "remove"
              \/ "remove" \in Range(calls[r])
        /\ "remove" \in Range(calls[r]) =>
              /\ pc[r] \in {"config", "create", "start", "done"}
              /\ (pc[r] \in {"create", "start", "done"} /\ ResourcesParse(r))
                    => (pc[r] = "create" \/ "create" \in Range(calls[r]))
              /\ (pc[r] = "done" /\ ResourcesParse(r))
                    => "create" \in Range(calls[r])
        /\ "create" \in errs[r] =>
              /\ pc[r] = "done"
              /\ resp[r] = Response(EngineError("create"))
              /\ "start" \notin Range(calls[r])

\* Stop, remove and create all failed for one request, the name still taken.
FailedCleanupThenNameTaken ==
    \E r \in Requests :
        /\ {"stop", "remove", "create"} \subseteq errs[r]
        /\ calls[r] = <<"pull", "inspect", "stop", "remove", "create">>
        /\ Named(containers, req[r].ContainerName) # {}
        /\ resp[r].status = 500

\* C5: the engine calls of a request are a prefix of pull, inspect, [stop,
\* remove], create, start; stop and remove follow a successful inspect only; a
\* failed pull, a failed parse and a failed create end the calls; a failed
\* inspect, stop or remove does not keep create from being called.
EngineCallSequence ==
    \A r \in Requests :
        /\ IsPrefix(calls[r], WithCleanup) \/ IsPrefix(calls[r], WithoutCleanup)
        /\ "stop" \in Range(calls[r]) => "inspect" \notin errs[r]
        /\ "pull" \in errs[r] => calls[r] = <<"pull">> /\ pc[r] = "done"
        /\ "create" \in errs[r] => Last(calls[r]) = "create" /\ pc[r] = "done"
        /\ ~ResourcesParse(r) => "create" \notin Range(calls[r])
        /\ (pc[r] = "done" /\ "inspect" \in Range(calls[r]) /\ ResourcesParse(r))
              => "create" \in Range(calls[r])

\* One request issued all six calls; another ended at a failed create after a
\* failed stop and a failed remove.
AllCallsInOrder ==
    \E r \in Requests :
        /\ pc[r] = "done"
        /\ calls[r] = WithCleanup
        /\ \E s \in Requests :
              /\ pc[s] = "done"
              /\ calls[s] = <<"pull", "inspect", "stop", "remove", "create">>
              /\ {"stop", "remove", "create"} \subseteq errs[s]

\* Every request but a and b is still to arrive or was answered before a came.
OnlyThese(a, b) ==
    \A c \in Requests \ {a, b} : pc[c] = "idle" \/ c \in before[a]

\* b is the same spec as a, deployed after a was answered with success, with
\* nothing in between and no engine failure.
TwiceInSequence(a, b) ==
    /\ Len(order) >= 2
    /\ Last(order) = b
    /\ order[Len(order) - 1] = a
    /\ a \in before[b]
    /\ req[b] # ZeroRequest
    /\ req[a] = req[b]
    /\ resp[a].status = 200
    /\ cred[b] # "load"
    /\ faults = 0
    /\ OnlyThese(a, b)

\* C2: deploying a valid spec a second time, after the first deploy returned
\* and with every engine call succeeding, finds the first deploy's container,
\* stops and removes it before create, and leaves exactly one running
\* container of that name: the second deploy's.
SequentialRedeployReplaces ==
    \A a, b \in Requests :
        TwiceInSequence(a, b)
        => /\ found[b] = a
           /\ calls[b] = WithCleanup
           /\ errs[b] = {}
           /\ resp[b] = Response(NoErr)
           /\ Named(containers, req[b].ContainerName)
                = {[id |-> b, name |-> req[b].ContainerName,
                    state |-> "running"]}

\* main.go deployed the same spec, with a memory limit, twice in sequence.
DeployedTwice ==
    \E a, b \in Requests :
        /\ TwiceInSequence(a, b)
        /\ variant = "main"
        /\ req[b].Memory = <<"1","K","B">>
        /\ found[b] = a
        /\ Cardinality(containers) = 1

\* C4 as claimed: a failure to load the credential configuration or to look up
\* the registry's auth entry ends the request with an error, and no pull is
\* issued.
CredentialFailureIsFatal ==
    \A r \in Requests :
        cred[r] \in {"load", "lookup"}
        => /\ calls[r] = <<>>
           /\ pc[r] = "done" => resp[r].status = 500

\* The request went through validation, pull, configuration, create and start.
Succeeded(r) ==
    /\ req[r] # ZeroRequest
    /\ ~OutsideRegistry(req[r].Image)
    /\ ResourcesParse(r)
    /\ calls[r] \in {WithCleanup, WithoutCleanup}
    /\ errs[r] \cap {"pull", "create", "start"} = {}

\* The handling of request r is over: answered, or cut short by its panic.
Ended(r) ==
    \/ pc[r] = "done"
    \/ crashed /\ pc[r] = "config" /\ Resources(req[r]).kind = "panic"

\* C6 as claimed: a request is answered 200, error 0, "Container Started" if
\* and only if its body parsed and every step succeeded; every other outcome
\* is answered 500, error 1, with the error's message.
HandlerAnswersEveryOutcome ==
    \A r \in Requests :
        Ended(r)
        => IF Succeeded(r)
           THEN resp[r] = [status |-> 200, error |-> 0,
                           message |-> Error("Container Started", Str0)]
           ELSE /\ resp[r].status = 500
                /\ resp[r].error = 1
                /\ resp[r].message \notin
                       {NoErr, Error("Container Started", Str0)}

\* The parser the specification describes: a recognised 2-letter unit, else a
\* recognised 1-letter unit, decides the power of 1024 that multiplies the
\* integer prefix; anything else is a parse error.
ReferenceParser(s) ==
    LET v     == ToUpper(s)
        two   == IF Len(v) >= 2 THEN SubSeq(v, Len(v) - 1, Len(v)) ELSE Str0
        one   == SubSeq(v, Len(v), Len(v))
        pow2  == (<<"K","B">> :> 1) @@ (<<"M","B">> :> 2) @@
                 (<<"G","B">> :> 3) @@ (<<"T","B">> :> 4)
        pow1  == (<<"K">> :> 1) @@ (<<"M">> :> 2) @@
                 (<<"G">> :> 3) @@ (<<"T">> :> 4)
        n2    == ParseInt(SubSeq(v, 1, Len(v) - 2))
        n1    == ParseInt(SubSeq(v, 1, Len(v) - 1))
    IN  IF two \in DOMAIN pow2
        THEN IF n2.ok THEN Bytes(n2.num, pow2[two])
             ELSE ParseError(Error("strconv.ParseInt", SubSeq(v, 1, Len(v) - 2)))
        ELSE IF one \in DOMAIN pow1
        THEN IF n1.ok THEN Bytes(n1.num, pow1[one])
             ELSE ParseError(Error("strconv.ParseInt", SubSeq(v, 1, Len(v) - 1)))
        ELSE ParseError(Error("Invalid unit", one))

\* C7 as claimed: on every non-empty string convertToBytes ends as the
\* reference parser does, in the same byte count or in a parse error.
ConvertToBytesAgreesWithReference ==
    ret # NotCalled
    => /\ ret.kind = ReferenceParser(val).kind
       /\ ret.num = ReferenceParser(val).num
       /\ ret.pow = ReferenceParser(val).pow

\* C8 as claimed: no memory string crashes the process; a request whose
\* memory string does not parse is answered with the parse error.
MemoryParsingIsNeverFatal ==
    /\ ~crashed
    /\ \A r \in Requests :
          (pc[r] = "done" /\ req[r].Memory # Str0
              /\ "inspect" \in Range(calls[r])
              /\ "create" \notin Range(calls[r]))
          => resp[r].status = 500

\* Request a and request b were in flight at the same time.
Concurrent(a, b) ==
    /\ a # b
    /\ pc[a] # "idle" /\ pc[b] # "idle"
    /\ a \notin before[b] /\ b \notin before[a]

\* Both deploys for one name reached the engine and were answered, b last.
BothReturned(a, b) ==
    /\ Concurrent(a, b)
    /\ pc[a] = "done" /\ pc[b] = "done"
    /\ calls[a] # <<>> /\ calls[b] # <<>>
    /\ req[a].ContainerName = req[b].ContainerName
    /\ Last(order) = b

\* C9 as claimed: of two concurrent deploys for one name, the one answered
\* last owns the container that exists once both were answered, and that
\* container is running (the engine failing no call for reasons of its own,
\* both requests well formed).
LastToReturnWins ==
    \A a, b \in Requests :
        (BothReturned(a, b) /\ OnlyThese(a, b) /\ faults = 0
            /\ ResourcesParse(a) /\ ResourcesParse(b))
        => Named(containers, req[b].ContainerName)
             = {[id |-> b, name |-> req[b].ContainerName, state |-> "running"]}

\* C9 as amended: once two concurrent deploys for one name were both
\* answered, at most one container of that name exists; if one exists it is
\* the one whose create call succeeded last (or the container from before the
\* service, when no create succeeded), whichever request was answered last;
\* and a container created by a request runs only if that request's own start
\* call succeeded.
LastCreateWins ==
    \A a, b \in Requests :
        BothReturned(a, b)
        => LET n == req[b].ContainerName
           IN  /\ Cardinality(Named(containers, n)) <= 1
               /\ \A c \in Named(containers, n) :
                     /\ c.id = lastCreated[n]
                     /\ (c.id # 0 /\ c.state = "running")
                           => /\ "start" \in Range(calls[c.id])
                              /\ "start" \notin errs[c.id]

\* Two concurrent deploys, no engine fault: the one answered last failed at
\* create, and the running container is the other's.
FirstToReturnOwnsContainer ==
    \E a, b \in Requests :
        /\ BothReturned(a, b)
        /\ faults = 0
        /\ Named(containers, req[b].ContainerName)
             = {[id |-> a, name |-> req[a].ContainerName, state |-> "running"]}
        /\ resp[a].status = 200
        /\ "create" \in errs[b]

\* C10 as claimed: with a container of that name found by inspect, a deploy
\* whose memory or cpuShares string is malformed returns the parse error
\* after pull, stop and remove and without create or start, so that no
\* container of that name is left (no other request about, every engine call
\* succeeding).
ParseErrorReturnedAfterCleanup ==
    \A r \in Requests :
        (variant = "main" /\ ~ResourcesParse(r) /\ found[r] # NotFound
            /\ faults = 0 /\ OnlyThese(r, r)
            /\ (pc[r] = "done" \/ crashed))
        => /\ pc[r] = "done"
           /\ resp[r].status = 500
           /\ resp[r].message.msg \in {"Invalid unit", "strconv.ParseInt"}
           /\ calls[r] = <<"pull", "inspect", "stop", "remove">>
           /\ errs[r] = {}
           /\ Named(containers, req[r].ContainerName) = {}

====
